---- MODULE Spec2Model ----
(***************************************************************************)
(* Model of the reconciliation engine of email_to_notion_automator:       *)
(* process_email_data (email_processor.py) and the record-store protocol  *)
(* of notion_utils.py (company, contact, main and project records), with  *)
(* the notifications each step sends.                                      *)
(*                                                                         *)
(* A container of the record store is a sequence of records in creation   *)
(* order; the id of a record is its position in its container, and None   *)
(* (0) is Python's None.  Every call of the record store or of the        *)
(* business registry may raise; the set F of an operation names the call  *)
(* sites that raise during that operation.                                 *)
(***************************************************************************)
EXTENDS Integers, Sequences, FiniteSets, TLC

VARIABLES
  related,   \* the related (company) container
  people,    \* the people (contact) container
  main,      \* the main container
  projects,  \* the records of the service containers
  sent,      \* the notifications sent by the current call
  calls,     \* the create and update calls issued by the current call
  last,      \* the arguments and the environment of the current call
  pre,       \* the record store when the current call began
  pc,        \* "idle" between two calls, "done" when a call has returned
  ncalls,    \* the number of calls begun
  arg,       \* the argument of the text function applied
  ret,       \* what the text function returned
  inst,      \* the local variables of the concurrent pipeline instances
  mail,      \* the mailbox of the IMAP server: inbox and archive folder
  poll,      \* the polling process: its position, counters and loop variables
  notify,    \* the error notifications: the file of notified clients and the clock
  paging     \* one paginated query: the pages of the store and the loop variables

vars == <<related, people, main, projects, sent, calls, last, pre, pc, ncalls, arg, ret,
          inst, mail, poll, notify, paging>>

\* ------------------------------------------------------------------ bounds
\* calls of an entry point in one behaviour, and calls of the record store
\* or the registry that raise during one call
MaxCalls == 1
MaxFailures == 1

\* extract_service_counts: no service is counted above 2
MaxCount == 2

\* ------------------------------------------------------------ configuration
None == 0
NoNumber == -1

MAIN_DATABASE_ID == "MAIN"
RELATED_DATABASE_ID == "RELATED"
PEOPLE_DATABASE_ID == "PEOPLE"
AI_CONSULTANCY_DATABASE_ID == "AI_CONSULTANCY"
MATCHMAKING_DATABASE_ID == "MATCHMAKING"

DEFAULT_RECIPIENTS == {"default@aire"}

\* config.py DATABASE_RESPONSIBLES: only the main and the service containers
\* are keys; a container whose variable is unset maps to the empty list.
DATABASE_RESPONSIBLES ==
  [db \in {MAIN_DATABASE_ID, AI_CONSULTANCY_DATABASE_ID, MATCHMAKING_DATABASE_ID} |->
     CASE db = MAIN_DATABASE_ID -> {"main@aire"}
       [] db = AI_CONSULTANCY_DATABASE_ID -> {"ai@aire"}
       [] OTHER -> {}]

\* config.py SERVICE_CONFIG, restricted to one advisory and one one-shot
\* service (the other four entries have the same shape).
SERVICE_CONFIG ==
  [s \in {"Tehisintellekti otstarbekuse noustamine", "Koostoopartnerite leidmine"} |->
     IF s = "Tehisintellekti otstarbekuse noustamine"
       THEN [database_id |-> AI_CONSULTANCY_DATABASE_ID, property_name |-> "TI uldnoustamine"]
       ELSE [database_id |-> MATCHMAKING_DATABASE_ID, property_name |-> "TI uldnoustamine"]]

\* keys of the dict built by extract_service_counts: the catalog services and
\* "AI help desk", which has no catalog entry.
ServiceKeys == <<"Tehisintellekti otstarbekuse noustamine", "Koostoopartnerite leidmine", "AI help desk">>

\* ------------------------------------------------------------------ inputs
Names == {"Alfa AS", "Beta OU"}
Codes == {"", "11", "22"}
Contacts == {"", "Ann"}

\* str.isdigit() and int() on the registration codes of the model
isdigit(code) == code \in {"11", "22"}
int(code) == CASE code = "11" -> 11 [] code = "22" -> 22 [] OTHER -> NoNumber

\* the company name the emails of the model carry with a registration code
NameOf(code) == IF code = "22" THEN "Beta OU" ELSE "Alfa AS"

EmailData == {[company_name |-> NameOf(c), registration_code |-> c,
               estonian |-> e, participant_name |-> p] :
                 c \in Codes, e \in BOOLEAN, p \in Contacts}

\* service_counts dicts: nothing requested, the help desk only, catalog services
ServiceCountInputs ==
  {[k \in {ServiceKeys[i] : i \in 1..Len(ServiceKeys)} |->
      IF k = ServiceKeys[1] THEN a ELSE IF k = ServiceKeys[2] THEN b ELSE h] :
        a \in {0, MaxCount}, b \in {0}, h \in {0, 1}}

\* the record-store calls of process_email_data (with the functions it calls)
\* and of add_project that may raise
ProcessSites == {"process.related_lookup", "related.create", "process.contact_lookup",
                 "main.maxjrk", "main.contact_lookup", "contact.link", "contact.create",
                 "main.lookup", "main.related_lookup", "main.index", "main.create"}
ProjectSites == {"project.props", "project.related_lookup", "project.contact_lookup",
                 "project.jrk", "project.maxjrk", "project.count",
                 "project.create1", "project.create2"}
\* the create call of unit i of add_project's loop
CreateSite == <<"project.create1", "project.create2">>

RECURSIVE FailSets(_, _)
FailSets(sites, n) ==
  IF n = 0 THEN {{}}
  ELSE LET P == FailSets(sites, n - 1) IN P \cup {p \cup {c} : p \in P, c \in sites}

\* the ways a container may spell a property of the catalog: as the catalog
\* does, in another letter case, surrounded by whitespace, or with decomposed
\* accented letters
Forms == {"exact", "lower", "padded", "decomposed"}

\* the properties of a service container, reduced to the relation property
\* that links a ProjectRecord to its MainRecord
DbProps == {{[text |-> "TI uldnoustamine", form |-> f]} : f \in Forms}

\* answers of the business registry to the validation request
HttpOutcomes == {"ok", "notfound", "error"}

\* ---------------------------------------------------------------- helpers

\* results[0] of a query without sorts: the store's order is creation order,
\* ascending or descending
First(ids, ord) ==
  IF ids = {} THEN None
  ELSE IF ord = "asc" THEN CHOOSE i \in ids : \A j \in ids : i <= j
  ELSE CHOOSE i \in ids : \A j \in ids : i >= j

MaxOf(S) == IF S = {} THEN 0 ELSE CHOOSE x \in S : \A y \in S : x >= y

\* query_all_pages: a raised query ends the loop with the pages fetched so
\* far; every container of the model fits in the first page
query_all_pages(ids, failed) == IF failed THEN {} ELSE ids

get_recipients_for_db(database_id) ==
  IF database_id \in DOMAIN DATABASE_RESPONSIBLES
    THEN DATABASE_RESPONSIBLES[database_id] ELSE DEFAULT_RECIPIENTS

send_error_email(S, recipients) ==
  [S EXCEPT !.sent = Append(@, [kind |-> "error", to |-> recipients])]

send_success_email(S, recipients) ==
  [S EXCEPT !.sent = Append(@, [kind |-> "success", to |-> recipients])]

\* notion.pages.create / notion.pages.update as seen by the store
LogCall(S, call, db, ok) ==
  [S EXCEPT !.calls = Append(@, [call |-> call, db |-> db, ok |-> ok])]

is_estonian_company(email_data) == email_data.estonian

\* validate_estonian_company: ok, or the notifications sent before it raises
validate_estonian_company(S, email_data, http) ==
  LET reg_code == email_data.registration_code
      recipients == get_recipients_for_db(MAIN_DATABASE_ID)
  IN IF ~is_estonian_company(email_data) THEN [ok |-> TRUE, S |-> S]
     ELSE IF reg_code = "" \/ ~isdigit(reg_code)
       THEN [ok |-> FALSE, S |-> send_error_email(S, recipients)]
     ELSE IF http = "notfound"
       \* the ValueError raised in the try block is caught by its own except
       THEN [ok |-> FALSE, S |-> send_error_email(send_error_email(S, recipients), recipients)]
     ELSE IF http = "error"
       THEN [ok |-> FALSE, S |-> send_error_email(S, recipients)]
     ELSE [ok |-> TRUE, S |-> S]

find_matching_entry_by_registry_code(S, registration_code, database_id, failed, ord) ==
  LET number == database_id = RELATED_DATABASE_ID
      ids == IF number
               THEN {i \in 1..Len(S.related) : S.related[i].reg = int(registration_code)}
               ELSE {i \in 1..Len(S.main) : S.main[i].reg = registration_code}
  IN IF failed \/ (number /\ ~isdigit(registration_code)) THEN None
     ELSE First(query_all_pages(ids, FALSE), ord)

find_matching_contact_by_name(S, name, failed, ord) ==
  IF name = "" \/ failed THEN None
  ELSE First({i \in 1..Len(S.people) : S.people[i].name = name}, ord)

InSeq(x, seq) == \E i \in 1..Len(seq) : seq[i] = x

\* a link that replaces the relation instead of appending to it
link_contact_to_company_overwrite(S, contact_id, company_page_id, failed) ==
  IF failed \/ InSeq(company_page_id, S.people[contact_id].orgs) THEN S
  ELSE LogCall([S EXCEPT !.people[contact_id].orgs = <<company_page_id>>],
               "update", PEOPLE_DATABASE_ID, TRUE)

\* a link that also writes the relation on the company's record
link_contact_to_company_both_ways(S, contact_id, company_page_id, failed) ==
  IF failed \/ InSeq(company_page_id, S.people[contact_id].orgs) THEN S
  ELSE LogCall(LogCall([S EXCEPT !.people[contact_id].orgs = Append(@, company_page_id),
                                 !.related[company_page_id].enriched = TRUE],
                       "update", PEOPLE_DATABASE_ID, TRUE),
               "update", RELATED_DATABASE_ID, TRUE)

link_contact_to_company(S, contact_id, company_page_id, failed) ==
  IF failed \/ InSeq(company_page_id, S.people[contact_id].orgs) THEN S
  ELSE LogCall([S EXCEPT !.people[contact_id].orgs = Append(@, company_page_id)],
               "update", PEOPLE_DATABASE_ID, TRUE)

create_new_contact_in_people_database(S, name, org_id, F) ==
  IF "contact.create" \in F
    THEN [id |-> None, S |-> LogCall(S, "create", PEOPLE_DATABASE_ID, FALSE)]
    ELSE LET new == [name |-> name, orgs |-> IF org_id # None THEN <<org_id>> ELSE <<>>]
             S1 == LogCall([S EXCEPT !.people = Append(@, new)], "create", PEOPLE_DATABASE_ID, TRUE)
             new_contact_id == Len(S1.people)
         IN [id |-> new_contact_id,
             S |-> IF org_id # None
                     THEN link_contact_to_company(S1, new_contact_id, org_id, "contact.link" \in F)
                     ELSE S1]

InDb(S, database_id) == {i \in 1..Len(S.projects) : S.projects[i].db = database_id}

\* the first record by descending Jrk; a record without Jrk counts as 0
get_max_jrk_number(S, db_id, failed) ==
  IF failed THEN 0
  ELSE IF db_id = MAIN_DATABASE_ID
    THEN MaxOf({S.main[i].jrk : i \in 1..Len(S.main)})
    ELSE MaxOf({S.projects[i].jrk : i \in InDb(S, db_id)})

\* the records of a service container whose "Company Name" relation contains
\* the company; a filter on None is rejected by the store
CompanyEntries(S, database_id, related_company_id) ==
  IF related_company_id = None THEN {}
  ELSE {i \in InDb(S, database_id) : S.projects[i].company = related_company_id}

\* a Jrk that is the running count of the company's records in the container
get_company_local_jrk_start_by_count(S, database_id, related_company_id, F) ==
  Cardinality(query_all_pages(CompanyEntries(S, database_id, related_company_id),
                              "project.jrk" \in F)) + 1

get_company_local_jrk_start(S, database_id, related_company_id, F) ==
  LET results == query_all_pages(CompanyEntries(S, database_id, related_company_id),
                                 "project.jrk" \in F)
  IN IF results = {}
       THEN get_max_jrk_number(S, database_id, "project.maxjrk" \in F) + 1
       ELSE MaxOf({S.projects[i].jrk : i \in results}) + 1

count_company_entries_in_database(S, database_id, related_entry_id, F) ==
  Cardinality(query_all_pages(CompanyEntries(S, database_id, related_entry_id),
                              "project.count" \in F))

get_next_project_index_for_company(S, related_company_id, company_clean, failed) ==
  LET results == query_all_pages(
                   IF related_company_id = None THEN {}
                   ELSE {i \in 1..Len(S.main) : S.main[i].company = related_company_id}, failed)
  IN MaxOf({S.main[i].index : i \in {j \in results : S.main[j].name = company_clean}}) + 1

\* create_new_entry_in_related_database; has_email_data is FALSE when the
\* caller leaves the email_data parameter at its default None
create_new_entry_in_related_database(S, company_name, registration_code, has_email_data, email_data, http, scrape_empty, F) ==
  LET recipients == get_recipients_for_db(RELATED_DATABASE_ID)
      v == validate_estonian_company(S, email_data, http)
      properties == [name |-> company_name,
                     reg |-> IF registration_code # "" /\ isdigit(registration_code)
                               THEN int(registration_code) ELSE NoNumber,
                     enriched |-> has_email_data /\ is_estonian_company(email_data)]
  IN IF has_email_data /\ ~v.ok
       \* except ValueError: notify and raise again; then the catch-all notifies
       THEN [id |-> None, S |-> send_error_email(send_error_email(v.S, recipients), recipients)]
     ELSE IF has_email_data /\ is_estonian_company(email_data) /\ scrape_empty
       THEN [id |-> None, S |-> send_error_email(send_error_email(S, recipients), recipients)]
     ELSE IF "related.create" \in F
       THEN [id |-> None,
             S |-> send_error_email(LogCall(S, "create", RELATED_DATABASE_ID, FALSE), recipients)]
     ELSE LET S1 == LogCall([S EXCEPT !.related = Append(@, properties)],
                            "create", RELATED_DATABASE_ID, TRUE)
          IN [id |-> Len(S1.related), S |-> S1]

add_company_to_main_database(S, email_data, related_entry_id, include_jrk, http, F, ord) ==
  LET db_id == MAIN_DATABASE_ID
      recipients == get_recipients_for_db(db_id)
      v == validate_estonian_company(S, email_data, http)
      cname == email_data.company_name
      next_jrk == get_max_jrk_number(S, db_id, "main.maxjrk" \in F) + 1
      \* the contact step
      existing_contact == find_matching_contact_by_name(S, email_data.participant_name,
                                                        "main.contact_lookup" \in F, ord)
      c == IF email_data.participant_name = "" THEN [id |-> None, S |-> S]
           ELSE IF existing_contact # None
             THEN [id |-> existing_contact,
                   S |-> IF related_entry_id # None
                           THEN link_contact_to_company(S, existing_contact, related_entry_id,
                                                        "contact.link" \in F)
                           ELSE S]
           ELSE create_new_contact_in_people_database(S, email_data.participant_name,
                                                      related_entry_id, F)
      existing == find_matching_entry_by_registry_code(c.S, email_data.registration_code,
                                                       db_id, "main.lookup" \in F, ord)
      related_id == find_matching_entry_by_registry_code(c.S, email_data.registration_code,
                       RELATED_DATABASE_ID, "main.related_lookup" \in F, ord)
      props == [name |-> cname,
                index |-> get_next_project_index_for_company(c.S, related_id, cname,
                                                              "main.index" \in F),
                company |-> related_entry_id,
                reg |-> email_data.registration_code,
                jrk |-> IF include_jrk THEN next_jrk ELSE None,
                contact |-> c.id]
  IN IF ~v.ok THEN [id |-> None, S |-> send_error_email(v.S, recipients)]
     ELSE IF existing # None THEN [id |-> existing, S |-> c.S]
     ELSE IF "main.create" \in F
       THEN [id |-> None,
             S |-> send_error_email(LogCall(c.S, "create", db_id, FALSE), recipients)]
     ELSE LET S1 == LogCall([c.S EXCEPT !.main = Append(@, props)], "create", db_id, TRUE)
          IN [id |-> Len(S1.main), S |-> send_success_email(S1, recipients)]

\* Unicode composition; letter case and whitespace are kept
normalize_text(name) == IF name.form = "decomposed" THEN [name EXCEPT !.form = "exact"] ELSE name

\* the loop of add_project from unit i on; a create that raises leaves the loop
RECURSIVE add_project_units(_, _, _, _, _, _, _, _, _, _)
add_project_units(S, i, count, email_data, database_id, main_entry_id, related_entry_id, related_contact_id, next_jrk, W) ==
  IF i > count THEN S
  ELSE
    LET props == [db |-> database_id,
                  name |-> email_data.company_name,
                  index |-> W.project_number_start + i,
                  company |-> related_entry_id,
                  main |-> main_entry_id,
                  contact |-> related_contact_id,
                  jrk |-> next_jrk]
    IN IF CreateSite[i] \in W.F
         THEN send_error_email(LogCall(S, "create", database_id, FALSE),
                               get_recipients_for_db(database_id))
         ELSE add_project_units(
                send_success_email(
                  LogCall([S EXCEPT !.projects = Append(@, props)], "create", database_id, TRUE),
                  get_recipients_for_db(database_id)),
                i + 1, count, email_data, database_id, main_entry_id,
                related_entry_id, related_contact_id, next_jrk + 1, W)

add_project(S, email_data, count, database_id, main_entry_id, property_name_key, db_props, http, F, ord) ==
  LET v == validate_estonian_company(S, email_data, http)
      \* get_database_properties returns {} when the store raises
      normalized == {normalize_text(k) : k \in IF "project.props" \in F THEN {} ELSE db_props}
      related_entry_id == find_matching_entry_by_registry_code(S, email_data.registration_code,
                             RELATED_DATABASE_ID, "project.related_lookup" \in F, ord)
      related_contact_id == find_matching_contact_by_name(S, email_data.participant_name,
                               "project.contact_lookup" \in F, ord)
      next_jrk == IF related_entry_id # None
                    THEN get_company_local_jrk_start(S, database_id, related_entry_id, F)
                    ELSE get_max_jrk_number(S, database_id, "project.maxjrk" \in F) + 1
      project_number_start == count_company_entries_in_database(S, database_id,
                                                                 related_entry_id, F)
  IN IF ~v.ok THEN send_error_email(v.S, get_recipients_for_db(database_id))
     ELSE IF property_name_key \notin normalized THEN S
     ELSE add_project_units(S, 1, count, email_data, database_id, main_entry_id,
                            related_entry_id, related_contact_id, next_jrk,
                            [project_number_start |-> project_number_start, F |-> F])

add_project_to_additional_databases(S, service_name, email_data, count, main_entry_id, db_props, http, F, ord) ==
  IF service_name \notin DOMAIN SERVICE_CONFIG THEN S
  ELSE add_project(S, email_data, count, SERVICE_CONFIG[service_name].database_id,
                   main_entry_id,
                   normalize_text([text |-> SERVICE_CONFIG[service_name].property_name,
                                   form |-> "exact"]),
                   db_props, http, F, ord)

\* process_email_data.  Two of its calls do not match the callee's signature
\* and raise TypeError before the callee runs: create_new_contact_in_people_
\* database is called with keywords email_address, phone_number,
\* organisation_id, people_database_id, and add_project_to_additional_databases
\* without main_entry_id.
process_email_data(S, email_data, service_counts, http, F, ord) ==
  LET related_entry == find_matching_entry_by_registry_code(S, email_data.registration_code,
                          RELATED_DATABASE_ID, "process.related_lookup" \in F, ord)
      r == IF related_entry # None THEN [id |-> related_entry, S |-> S]
           ELSE create_new_entry_in_related_database(S, email_data.company_name,
                    email_data.registration_code, FALSE, email_data, http, FALSE, F)
      contact_name == email_data.participant_name
      related_contact == find_matching_contact_by_name(r.S, contact_name,
                            "process.contact_lookup" \in F, ord)
      include_jrk == \E k \in DOMAIN service_counts : service_counts[k] > 0
      m == add_company_to_main_database(r.S, email_data, r.id, include_jrk, http, F, ord)
  IN IF contact_name # "" /\ related_contact = None
       THEN send_error_email(r.S, DEFAULT_RECIPIENTS)
     ELSE IF \E k \in DOMAIN service_counts :
               service_counts[k] > 0 /\ k \in DOMAIN SERVICE_CONFIG
       THEN send_error_email(m.S, DEFAULT_RECIPIENTS)
     ELSE m.S

\* ------------------------------------------------------------ state machine
Store == [related |-> related, people |-> people, main |-> main, projects |-> projects]

Begin == [related |-> related, people |-> people, main |-> main, projects |-> projects,
          sent |-> <<>>, calls |-> <<>>]

NoEmail == [company_name |-> "Alfa AS", registration_code |-> "",
            estonian |-> FALSE, participant_name |-> ""]
NoCounts == [k \in {ServiceKeys[i] : i \in 1..Len(ServiceKeys)} |-> 0]
NoCall == [op |-> "none", email_data |-> NoEmail, service_counts |-> NoCounts,
           service_name |-> "", count |-> 0, main_entry_id |-> None,
           db_props |-> {}, http |-> "ok", F |-> {}]

\* the registry is asked only about a domestic company with a numeric code
HttpFor(email_data) ==
  IF email_data.estonian /\ isdigit(email_data.registration_code)
    THEN HttpOutcomes ELSE {"ok"}

\* the order of a query's results matters only among records with equal keys
Orders ==
  IF \/ \E i, j \in 1..Len(related) : i < j /\ related[i].reg = related[j].reg
     \/ \E i, j \in 1..Len(main) : i < j /\ main[i].reg = main[j].reg
     \/ \E i, j \in 1..Len(people) : i < j /\ people[i].name = people[j].name
    THEN {"asc", "desc"} ELSE {"asc"}

Commit(S, call) ==
  /\ ncalls < MaxCalls
  /\ ncalls' = ncalls + 1
  /\ related' = S.related
  /\ people' = S.people
  /\ main' = S.main
  /\ projects' = S.projects
  /\ sent' = S.sent
  /\ calls' = S.calls
  /\ last' = call
  /\ pre' = Store
  /\ pc' = "done"
  /\ UNCHANGED <<arg, ret, inst, mail, poll, notify, paging>>

\* one email handed to process_email_data by process_email
ProcessEmailData ==
  /\ pc = "idle"
  /\ \E email_data \in EmailData, service_counts \in ServiceCountInputs,
        F \in FailSets(ProcessSites, MaxFailures), ord \in Orders :
       \E http \in HttpFor(email_data) :
         Commit(process_email_data(Begin, email_data, service_counts, http, F, ord),
                [NoCall EXCEPT !.op = "process_email_data", !.email_data = email_data,
                               !.service_counts = service_counts, !.http = http, !.F = F])

\* the project batch of one service, called with the main record of the email
AddProjectToAdditionalDatabases ==
  /\ pc = "idle"
  /\ \E email_data \in EmailData, i \in 1..Len(ServiceKeys), count \in 1..MaxCount,
        F \in FailSets(ProjectSites, MaxFailures), ord \in Orders, db_props \in DbProps :
       \E http \in HttpFor(email_data),
          main_entry_id \in {None} \cup {n \in 1..Len(main) : main[n].reg = email_data.registration_code} :
         Commit(add_project_to_additional_databases(Begin, ServiceKeys[i], email_data, count,
                                                    main_entry_id, db_props, http, F, ord),
                [NoCall EXCEPT !.op = "add_project", !.email_data = email_data,
                               !.service_name = ServiceKeys[i], !.count = count,
                               !.main_entry_id = main_entry_id, !.db_props = db_props,
                               !.http = http, !.F = F])

\* the call has returned; the next one starts with empty logs
Return ==
  /\ pc = "done"
  /\ pc' = "idle"
  /\ sent' = <<>>
  /\ calls' = <<>>
  /\ last' = NoCall
  /\ pre' = Store
  /\ UNCHANGED <<related, people, main, projects, ncalls, arg, ret, inst, mail, poll, notify, paging>>

AlfaRecord == [name |-> "Alfa AS", reg |-> 11, enriched |-> FALSE]
BetaRecord == [name |-> "Beta OU", reg |-> 22, enriched |-> FALSE]
AnnRecord == [name |-> "Ann", orgs |-> <<1>>]
AlfaMain == [name |-> "Alfa AS", index |-> 1, company |-> 1, reg |-> "11",
             jrk |-> 1, contact |-> 1]
AlfaProject == [db |-> AI_CONSULTANCY_DATABASE_ID, name |-> "Alfa AS", index |-> 1,
                company |-> 1, main |-> 1, contact |-> 1, jrk |-> 1]

\* the record store at the start: empty; company Alfa and its contact Ann; or
\* the companies Alfa and Beta, Ann, and the main record and one project that
\* an earlier registration of Alfa left
Init ==
  /\ \/ related = <<>> /\ people = <<>> /\ main = <<>> /\ projects = <<>>
     \/ related = <<AlfaRecord>> /\ people = <<AnnRecord>> /\ main = <<>> /\ projects = <<>>
     \/ /\ related = <<AlfaRecord, BetaRecord>>
        /\ people = <<AnnRecord>>
        /\ main = <<AlfaMain>>
        /\ projects = <<AlfaProject>>
  /\ sent = <<>>
  /\ calls = <<>>
  /\ last = NoCall
  /\ pre = Store
  /\ pc = "idle"
  /\ ncalls = 0
  /\ arg = <<>>
  /\ ret = <<>>
  /\ inst = <<>>
  /\ mail = <<>>
  /\ poll = <<>>
  /\ notify = <<>>
  /\ paging = <<>>

\* the emails of the polling loop
Next == ProcessEmailData \/ Return

Spec == Init /\ [][Next]_vars

\* the project batches
NextProject == AddProjectToAdditionalDatabases \/ Return

SpecProject == Init /\ [][NextProject]_vars

\* ------------------------------------------------------------ company names
\* A name is the sequence of the tokens whose concatenation is the string:
\* legal-form abbreviations, long-form words, an ordinary word and separator
\* characters.  "OU" and "Osauhing" stand for the forms written with diacritics.
MaxNameLen == 3

Abbreviations == {"AS", "as", "OU"}
LongForms == {"Aktsiaselts", "Osauhing"}
Separators == {" ", ".", "-", ","}
Tokens == Abbreviations \cup LongForms \cup {"Foo"} \cup Separators

NameInputs == UNION {[1..n -> Tokens] : n \in 0..MaxNameLen}

\* str.upper on the tokens of a prefix match
upper(s) == [i \in 1..Len(s) |-> IF s[i] = "as" THEN "AS" ELSE s[i]]

RECURSIVE lstrip(_)
lstrip(s) == IF s # <<>> /\ Head(s) = " " THEN lstrip(Tail(s)) ELSE s

RECURSIVE rstrip(_)
rstrip(s) == IF s # <<>> /\ s[Len(s)] = " " THEN rstrip(SubSeq(s, 1, Len(s) - 1)) ELSE s

strip(s) == rstrip(lstrip(s))

\* the end of the match of [\s\.-]* after position i
RECURSIVE prefix_tail(_, _)
prefix_tail(s, i) ==
  IF i < Len(s) /\ s[i + 1] \in {" ", ".", "-"} THEN prefix_tail(s, i + 1) ELSE i

\* prefix_regex.match: the length of the match of ^(AS|..)[\s\.-]* (no word
\* boundary after the abbreviation, case ignored), 0 for no match
prefix_regex(s) == IF s # <<>> /\ s[1] \in Abbreviations THEN prefix_tail(s, 1) ELSE 0

\* the long-form patterns, in the order they are tried
patterns == <<[regex |-> "Aktsiaselts", replacement |-> "AS"], [regex |-> "Osauhing", replacement |-> "OU"]>>

\* the matches of \bword\b: the word between separators or the ends
Matches(s, word) ==
  {i \in 1..Len(s) : /\ s[i] = word
                     /\ (i = 1 \/ s[i - 1] \in Separators)
                     /\ (i = Len(s) \/ s[i + 1] \in Separators)}

\* regex.sub("", s) for the matches at positions I
RECURSIVE Without(_, _, _)
Without(s, I, i) ==
  IF i > Len(s) THEN <<>>
  ELSE (IF i \in I THEN <<>> ELSE <<s[i]>>) \o Without(s, I, i + 1)

\* one turn of the loop over patterns
apply_pattern(st, pattern) ==
  IF Matches(st.name, pattern.regex) # {}
    THEN [name |-> strip(Without(st.name, Matches(st.name, pattern.regex), 1)),
          suffix |-> <<pattern.replacement>>]
  ELSE st

normalize_company_name(name) ==
  IF name = <<>> THEN <<>>
  ELSE LET stripped == strip(name)
           e == prefix_regex(stripped)
           st0 == IF e > 0
                    THEN [name |-> strip(SubSeq(stripped, e + 1, Len(stripped))),
                          suffix |-> upper(strip(SubSeq(stripped, 1, e)))]
                  ELSE [name |-> stripped, suffix |-> <<>>]
           st1 == apply_pattern(st0, patterns[1])
           st2 == apply_pattern(st1, patterns[2])
           out == IF st2.suffix # <<>> THEN st2.name \o <<" ">> \o st2.suffix ELSE st2.name
       IN strip(SelectSeq(out, LAMBDA x : x # ","))

\* the text functions work on no record: the store stays empty
EmptyStore ==
  /\ related = <<>> /\ people = <<>> /\ main = <<>> /\ projects = <<>>
  /\ sent = <<>> /\ calls = <<>>
  /\ last = NoCall
  /\ pre = [related |-> <<>>, people |-> <<>>, main |-> <<>>, projects |-> <<>>]
  /\ ncalls = 0
  /\ inst = <<>>
  /\ mail = <<>>
  /\ poll = <<>>
  /\ notify = <<>>
  /\ paging = <<>>

StoreUntouched == UNCHANGED <<related, people, main, projects, sent, calls, last, pre, ncalls, inst, mail, poll, notify, paging>>

InitNormalize == EmptyStore /\ pc = "idle" /\ arg \in NameInputs /\ ret = <<>>

\* a name is normalized
NormalizeCompanyName ==
  /\ pc = "idle"
  /\ ret' = normalize_company_name(arg)
  /\ pc' = "done"
  /\ UNCHANGED arg
  /\ StoreUntouched

\* the result is normalized again
NormalizeAgain ==
  /\ pc = "done"
  /\ arg' = ret
  /\ ret' = normalize_company_name(ret)
  /\ pc' = "twice"
  /\ StoreUntouched

NextNormalize == NormalizeCompanyName \/ NormalizeAgain

SpecNormalize == InitNormalize /\ [][NextNormalize]_vars

\* ----------------------------------------------------------- service counts
\* A body is a sequence of text fragments (joined by spaces or line breaks).
\* A fragment is a phrase of the registration form, followed, when its value
\* is not empty, by ": <value>" (English) or ": <value> kordne" (Estonian).
\* Phrases with Estonian letters come in two spellings: "form", the letters
\* as the form sends them, and "source", the characters that the patterns of
\* data_extraction.py hold in their place; phrases of plain letters have the
\* one spelling "source".  In the keys below "~" stands for such a character.
MaxBodyLen == 2

Languages == {"et", "en", "fr"}

K_AI == "Tehisintellekti otstarbekuse n~ustamine"
K_PRIVATE == "Finantseerimise n~ustamine - Erakapitali kaasamine"
K_PUBLIC == "Finantseerimise n~ustamine - Avalikud meetmed"
K_MATCHMAKING == "Koost~~partnerite leidmine"
K_HELPDESK == "AI help desk"
K_AI_ACT == "TI m~~ruse n~ustamine ja usaldusv~~rne TI"
K_EU_ACCESS == "Ligip~~s EL'i tehisintellekti taristule"

service_keys == {K_AI, K_PRIVATE, K_PUBLIC, K_MATCHMAKING, K_HELPDESK, K_AI_ACT, K_EU_ACCESS}

\* the keys that contain the substring tested by the final limit
AdvisoryKeys == {K_AI, K_PRIVATE, K_PUBLIC, K_AI_ACT}

Values == {"", "1", "3", "two"}
EnglishCounted == {"AI suitability assessment", "Support to find funding", "AI Act awareness and responsible AI", "Phone number"}
EnglishPlain == {"AI help desk", "public measures", "private capital", "Matchmaking", "Access to EU AI infrastructure"}
EstonianCounted == {"AI noustamine", "Finantseerimise noustamine"}
EstonianPlain == {"Tehisintellekti uldnoustamine", "Tehisintellekti otstarbekuse noustamine", "Koostoopartnerite leidmine", "TI maaruse noustamine ja usaldusvaarne TI", "Ligipaas EL'i tehisintellekti taristule"}
EstonianAscii == {"Avalikud meetmed", "Erakapitali kaasamine"}

Fragments ==
  [label : EnglishCounted, value : Values, spelling : {"source"}]
    \cup [label : EnglishPlain \cup EstonianAscii, value : {""}, spelling : {"source"}]
    \cup [label : EstonianCounted, value : Values, spelling : {"form", "source"}]
    \cup [label : EstonianPlain, value : {""}, spelling : {"form", "source"}]

Bodies == UNION {[1..n -> Fragments] : n \in 0..MaxBodyLen}

\* int() of a matched value; "two" is read as 2
IntOf(v) == CASE v = "1" -> 1 [] v = "3" -> 3 [] v = "two" -> 2 [] OTHER -> 0

\* a minimum that keeps its first argument
min_first(a, b) == a

min(a, b) == IF a < b THEN a ELSE b

\* re.search of the pattern of a phrase: the fragments it matches.  The
\* pattern of the AI Act phrase admits one character where both spellings of
\* the phrase have more, and matches neither.
search(body, label) ==
  IF label = "TI maaruse noustamine ja usaldusvaarne TI" THEN {}
  ELSE {i \in 1..Len(body) : body[i].label = label /\ body[i].spelling = "source"}

FirstIn(body, I) == body[CHOOSE i \in I : \A j \in I : i <= j].value

\* re.search(r"<label>:\s*(\d+)\s*kordne"): the digits of the first match
kordne_match(body, label) ==
  LET I == {i \in search(body, label) : body[i].value \in {"1", "3"}}
  IN IF I = {} THEN "" ELSE FirstIn(body, I)

\* re.search(r"<label>:\s*(two|[\d]+)"): the value of the first match
count_match(body, label) ==
  LET I == {i \in search(body, label) : body[i].value # ""}
  IN IF I = {} THEN "" ELSE FirstIn(body, I)

\* re.search(r"AI\s*Act\s*awareness.*?:\s*(two|[\d]+)"): the first colon
\* followed by a number or "two" at or after the first match of the phrase
act_match(body) ==
  LET S == search(body, "AI Act awareness and responsible AI")
      I == {j \in 1..Len(body) : /\ \E i \in S : i <= j
                                 /\ body[j].value # ""}
  IN IF I = {} THEN "" ELSE FirstIn(body, I)

\* count = int(match) if match else 1
count_of(v) == IF v = "" THEN 1 ELSE IntOf(v)

service_counts0 == [k \in service_keys |-> 0]

estonian(body) ==
  LET fin == min(count_of(kordne_match(body, "Finantseerimise noustamine")), 2)
      found(label) == search(body, label) # {}
  IN [k \in service_keys |->
       CASE k = K_HELPDESK -> IF found("Tehisintellekti uldnoustamine") THEN 1 ELSE 0
         [] k = K_AI -> IF found("Tehisintellekti otstarbekuse noustamine")
                          THEN min(count_of(kordne_match(body, "AI noustamine")), 2) ELSE 0
         [] k = K_PUBLIC -> IF found("Finantseerimise noustamine") /\ found("Avalikud meetmed")
                              THEN fin ELSE 0
         [] k = K_PRIVATE -> IF found("Finantseerimise noustamine") /\ found("Erakapitali kaasamine")
                               THEN fin ELSE 0
         [] k = K_MATCHMAKING -> IF found("Koostoopartnerite leidmine") THEN 1 ELSE 0
         [] k = K_AI_ACT -> IF found("TI maaruse noustamine ja usaldusvaarne TI")
                              THEN min(count_of(kordne_match(body, "TI maaruse noustamine ja usaldusvaarne TI")), 2)
                            ELSE 0
         [] k = K_EU_ACCESS -> IF found("Ligipaas EL'i tehisintellekti taristule") THEN 1 ELSE 0]

english(body) ==
  LET fin == min(count_of(count_match(body, "Support to find funding")), 2)
      found(label) == search(body, label) # {}
  IN [k \in service_keys |->
       CASE k = K_HELPDESK -> IF found("AI help desk") THEN 1 ELSE 0
         [] k = K_AI -> IF found("AI suitability assessment")
                          THEN min(count_of(count_match(body, "AI suitability assessment")), 2) ELSE 0
         [] k = K_PUBLIC -> IF found("Support to find funding") /\ found("public measures")
                              THEN fin ELSE 0
         [] k = K_PRIVATE -> IF found("Support to find funding") /\ found("private capital")
                               THEN fin ELSE 0
         [] k = K_MATCHMAKING -> IF found("Matchmaking") THEN 1 ELSE 0
         [] k = K_AI_ACT -> IF found("AI Act awareness and responsible AI")
                              THEN min(count_of(act_match(body)), 2) ELSE 0
         [] k = K_EU_ACCESS -> IF found("Access to EU AI infrastructure") THEN 1 ELSE 0]

\* a language other than "et" and "en" is read as Estonian
language_branch_default_et(body, language) ==
  IF language = "en" THEN english(body) ELSE estonian(body)

\* if language == "et" ... elif language == "en" ... else: nothing detected
language_branch(body, language) ==
  IF language = "et" THEN estonian(body)
  ELSE IF language = "en" THEN english(body)
  ELSE service_counts0

\* enforce limits
enforce_limits(service_counts) ==
  [k \in service_keys |-> min(service_counts[k], IF k \in AdvisoryKeys THEN MaxCount ELSE 1)]

extract_service_counts(body, language) == enforce_limits(language_branch(body, language))

InitExtract ==
  /\ EmptyStore
  /\ pc = "idle"
  /\ arg \in [body : Bodies, language : Languages]
  /\ ret = <<>>

\* the services of one body are counted
ExtractServiceCounts ==
  /\ pc = "idle"
  /\ ret' = extract_service_counts(arg.body, arg.language)
  /\ pc' = "done"
  /\ UNCHANGED arg
  /\ StoreUntouched

NextExtract == ExtractServiceCounts

SpecExtract == InitExtract /\ [][NextExtract]_vars

\* --------------------------------------------------------------- email data
\* For extract_email_data a body is the sequence of its lines; a line is a
\* label of the form with the text after its colon, or a text without label.
\* The fields phone_number, industry and helpdesk_topics follow the rule of
\* company_name and are left out.
MaxLines == 2

FieldLabels == [company_name |-> "Company or organization name", email_address |-> "E-mail", registration_code |-> "Registration code", participant_name |-> "Participant name", company_origin |-> "Company origin"]

Labels == {FieldLabels[f] : f \in DOMAIN FieldLabels} \cup {""}

LineTexts == {"", "not-an-email", "a@x.ee", "Ann b@x.ee"}

LineBodies == UNION {[1..n -> [label : Labels, text : LineTexts]] : n \in 0..MaxLines}

\* email_pattern.search(text).group(), "" for no match
email_pattern(text) ==
  CASE text = "a@x.ee" -> "a@x.ee" [] text = "Ann b@x.ee" -> "b@x.ee" [] OTHER -> ""

\* lines[index].strip()
raw(line) ==
  IF line.label = "" THEN line.text
  ELSE IF line.text = "" THEN line.label \o ":"
  ELSE line.label \o ": " \o line.text

extract_value(lines, index, pattern) ==
  LET value == lines[index].text
  IN IF value = "" /\ index < Len(lines)
       THEN IF pattern THEN email_pattern(lines[index + 1].text) ELSE raw(lines[index + 1])
     ELSE IF pattern THEN email_pattern(value)
     ELSE value

\* the value of the last line that carries the label of the field
FieldValue(lines, field, pattern) ==
  LET I == {i \in 1..Len(lines) : lines[i].label = FieldLabels[field]}
  IN IF I = {} THEN "" ELSE extract_value(lines, CHOOSE i \in I : \A j \in I : i >= j, pattern)

extract_email_data(lines) ==
  [field \in DOMAIN FieldLabels |-> FieldValue(lines, field, field = "email_address")]

InitEmailData == EmptyStore /\ pc = "idle" /\ arg \in LineBodies /\ ret = <<>>

\* the fields of one body are extracted
ExtractEmailData ==
  /\ pc = "idle"
  /\ ret' = extract_email_data(arg)
  /\ pc' = "done"
  /\ UNCHANGED arg
  /\ StoreUntouched

NextEmailData == ExtractEmailData

SpecEmailData == InitEmailData /\ [][NextEmailData]_vars

\* ------------------------------------------------------------ process_email
\* A message is what langdetect answers for its body ("error" when it
\* raises), the labelled lines of the body and its service phrases.
Detections == {"et", "en", "fr", "error"}

CompanyLine(text) == [label |-> FieldLabels.company_name, text |-> text]
CodeLine(text) == [label |-> FieldLabels.registration_code, text |-> text]
OriginLine(text) == [label |-> FieldLabels.company_origin, text |-> text]
ParticipantLine(text) == [label |-> FieldLabels.participant_name, text |-> text]

MessageLines ==
  {<<CompanyLine("Foo AS"), CodeLine("11")>>,
   <<CompanyLine("AS Foo"), CodeLine("11"), OriginLine("Eesti")>>,
   <<CodeLine("11"), ParticipantLine("Ann")>>,
   <<CompanyLine(""), CodeLine("11")>>,
   <<CompanyLine("Foo AS"), CodeLine("22"), ParticipantLine("Ann")>>}

MessageServices ==
  {<<>>,
   <<[label |-> "AI suitability assessment", value |-> "two", spelling |-> "source"]>>}

Messages == [detect : Detections, lines : MessageLines, services : MessageServices]

\* the tokens of an extracted company name
tokens_of(text) ==
  CASE text = "Foo AS" -> <<"Foo", " ", "AS">>
    [] text = "AS Foo" -> <<"AS", " ", "Foo">>
    [] text = "" -> <<>>
    [] OTHER -> <<text>>

RECURSIVE join(_)
join(s) == IF s = <<>> THEN "" ELSE Head(s) \o join(Tail(s))

\* the fields of the extracted dict that the reconciliation reads;
\* is_estonian_company looks for "eesti" in the company origin
EmailDataOf(data) ==
  [company_name |-> data.company_name,
   registration_code |-> data.registration_code,
   estonian |-> data.company_origin = "Eesti",
   participant_name |-> data.participant_name]

\* the email_data that process_email hands on
Normalized(data) ==
  EmailDataOf([data EXCEPT !.company_name = join(normalize_company_name(tokens_of(data.company_name)))])

\* a process_email that does not look at the detected language
process_email_any_language(S, msg, http, F, ord) ==
  LET email_data == extract_email_data(msg.lines)
  IN IF email_data.company_name # ""
       THEN process_email_data(S, Normalized(email_data),
                               extract_service_counts(msg.services, msg.detect), http, F, ord)
     ELSE S

process_email(S, msg, http, F, ord) ==
  LET language == IF msg.detect = "error" THEN "unknown" ELSE msg.detect
      email_data == extract_email_data(msg.lines)
  IN IF language \notin {"en", "et"} THEN S
     ELSE IF email_data.company_name # ""
       THEN process_email_data(S, Normalized(email_data),
                               extract_service_counts(msg.services, language), http, F, ord)
     ELSE S

\* one unread message handed to process_email
ProcessEmail ==
  /\ pc = "idle"
  /\ ncalls < MaxCalls
  /\ \E msg \in Messages, F \in FailSets(ProcessSites, MaxFailures), ord \in Orders :
       \E http \in HttpFor(Normalized(extract_email_data(msg.lines))) :
         LET S == process_email(Begin, msg, http, F, ord)
         IN /\ related' = S.related
            /\ people' = S.people
            /\ main' = S.main
            /\ projects' = S.projects
            /\ sent' = S.sent
            /\ calls' = S.calls
            /\ last' = [NoCall EXCEPT !.op = "process_email",
                                      !.email_data = Normalized(extract_email_data(msg.lines)),
                                      !.http = http, !.F = F]
            /\ arg' = msg
            /\ ret' = extract_email_data(msg.lines)
  /\ ncalls' = ncalls + 1
  /\ pre' = Store
  /\ pc' = "done"
  /\ UNCHANGED <<inst, mail, poll, notify, paging>>

NextEmail == ProcessEmail \/ Return

SpecEmail == Init /\ [][NextEmail]_vars

\* ----------------------------------------------------- concurrent instances
\* Two instances of the pipeline work on one record store.  Every lookup and
\* every create is one step of an instance; what an instance has read stays
\* in its local variables until it acts on it.

\* a create that looks the registration code up again in the same step
related_entry_id_atomic(S, i) ==
  LET found == find_matching_entry_by_registry_code(S, i.email_data.registration_code, RELATED_DATABASE_ID, FALSE, "asc")
  IN IF found # None THEN [id |-> found, S |-> S]
     ELSE create_new_entry_in_related_database(S, i.email_data.company_name, i.email_data.registration_code, FALSE, i.email_data, "ok", FALSE, {})

\* process_email_data: related_entry_id from the result of the lookup
related_entry_id(S, i) ==
  IF i.related_entry # None THEN [id |-> i.related_entry, S |-> S]
  ELSE create_new_entry_in_related_database(S, i.email_data.company_name, i.email_data.registration_code, FALSE, i.email_data, "ok", FALSE, {})

\* process_email_data: the lookup of the CompanyRecord
RelatedLookup(p) ==
  /\ inst[p].pc = "start"
  /\ inst' = [inst EXCEPT ![p].pc = "related_looked",
                          ![p].related_entry = find_matching_entry_by_registry_code(Begin, inst[p].email_data.registration_code, RELATED_DATABASE_ID, FALSE, "asc")]
  /\ UNCHANGED <<related, people, main, projects, sent, calls, last, pre, pc, ncalls, arg, ret, mail, poll, notify, paging>>

\* process_email_data: the CompanyRecord is created unless the lookup found one
RelatedCreate(p) ==
  /\ inst[p].pc = "related_looked"
  /\ LET r == related_entry_id([Begin EXCEPT !.sent = sent, !.calls = calls], inst[p])
     IN /\ related' = r.S.related
        /\ sent' = r.S.sent
        /\ calls' = r.S.calls
        /\ inst' = [inst EXCEPT ![p].pc = "related_resolved", ![p].related_entry_id = r.id]
  /\ UNCHANGED <<people, main, projects, last, pre, pc, ncalls, arg, ret, mail, poll, notify, paging>>

\* add_company_to_main_database: the lookup of the MainRecord sees the main
\* container as it is now
MainLookup(p) ==
  /\ inst[p].pc = "related_resolved"
  /\ inst' = [inst EXCEPT ![p].pc = "main_looked", ![p].main_seen = Len(main)]
  /\ UNCHANGED <<related, people, main, projects, sent, calls, last, pre, pc, ncalls, arg, ret, mail, poll, notify, paging>>

\* add_company_to_main_database: the rest of the call acts on what the lookup
\* saw; the record it creates is appended to the container as it is now
MainCreate(p) ==
  /\ inst[p].pc = "main_looked"
  /\ \E ord \in Orders :
       LET seen == [Begin EXCEPT !.main = SubSeq(main, 1, inst[p].main_seen), !.sent = sent, !.calls = calls]
           m == add_company_to_main_database(seen, inst[p].email_data, inst[p].related_entry_id, FALSE, "ok", {}, ord)
       IN /\ main' = main \o SubSeq(m.S.main, inst[p].main_seen + 1, Len(m.S.main))
          /\ people' = m.S.people
          /\ sent' = m.S.sent
          /\ calls' = m.S.calls
  /\ inst' = [inst EXCEPT ![p].pc = "done"]
  /\ UNCHANGED <<related, projects, last, pre, pc, ncalls, arg, ret, mail, poll, notify, paging>>

\* two instances, each with the email of a company without participant and
\* services; the store is empty or holds company Alfa and its contact
InitRace ==
  /\ \/ related = <<>> /\ people = <<>>
     \/ related = <<AlfaRecord>> /\ people = <<AnnRecord>>
  /\ main = <<>> /\ projects = <<>> /\ sent = <<>> /\ calls = <<>>
  /\ last = NoCall /\ pre = Store /\ pc = "idle" /\ ncalls = 0
  /\ arg = <<>> /\ ret = <<>> /\ mail = <<>> /\ poll = <<>>
  /\ notify = <<>> /\ paging = <<>>
  /\ inst \in [1..2 -> [pc : {"start"}, related_entry : {None}, related_entry_id : {None}, main_seen : {0},
                        email_data : {e \in EmailData : isdigit(e.registration_code) /\ e.participant_name = ""}]]

NextRace == \E p \in DOMAIN inst : RelatedLookup(p) \/ RelatedCreate(p) \/ MainLookup(p) \/ MainCreate(p)

SpecRace == InitRace /\ [][NextRace]_vars

\* ------------------------------------------------------------ polling loop
\* main.py: check_for_new_emails and the block that starts it.  The inbox is
\* the sequence of its messages in arrival order; the message sequence number
\* of a message is its position in the inbox, and EXPUNGE renumbers the
\* messages behind the removed one.  A message whose headers cannot be
\* decoded (fault) makes process_email raise.

\* messages that arrive in one behaviour
MaxMessages == 5

\* stop_after_attempt(5) of connect_imap and of check_for_new_emails
StopAfterAttempt == 5

\* a retry condition that accepts every exception
retry_if_any_exception(exc) == exc # "none"

\* retry_if_exception_type(imaplib.IMAP4.error)
retry_if_exception_type(exc) == exc = "IMAP4.error"

\* an exception leaves check_for_new_emails: the decorator calls the function
\* again, or the exception (RetryError after the last attempt) reaches the
\* caller
check_for_new_emails_raises(p, exc) ==
  IF retry_if_exception_type(exc) /\ p.attempt < StopAfterAttempt
    THEN [p EXCEPT !.pc = "connect", !.attempt = @ + 1, !.tries = 1]
    ELSE [p EXCEPT !.pc = "fatal"]

\* the handler of the for loop: except Exception
except_Exception(exc) == exc \in {"IMAP4.error", "OSError", "TypeError", "RetryError"}

\* the two calls after process_email run whatever process_email did
after_process_email_always(exc) == TRUE

\* mark_email_as_processed and move_email_to_archive follow process_email in
\* the try block: they run when it has returned
after_process_email(exc) == exc = "none"

\* move_email_to_archive: COPY, then \Deleted and EXPUNGE when the copy is OK
move_email_to_archive(mb, e_id, copy) ==
  IF copy = "OK"
    THEN [mb EXCEPT !.archive = @ \cup {mb.inbox[e_id].id},
                    !.inbox = SubSeq(@, 1, e_id - 1) \o SubSeq(@, e_id + 1, Len(@))]
    ELSE mb

\* a message is delivered to the inbox
Arrive ==
  /\ mail.n < MaxMessages
  /\ \E fault \in BOOLEAN :
       mail' = [mail EXCEPT !.n = @ + 1,
                            !.inbox = Append(@, [id |-> mail.n + 1, seen |-> FALSE, fault |-> fault])]
  /\ UNCHANGED <<related, people, main, projects, sent, calls, last, pre, pc, ncalls, arg, ret, inst, poll, notify, paging>>

\* one attempt of connect_imap
ConnectImap ==
  /\ poll.pc = "connect"
  /\ \E exc \in {"none", "IMAP4.error", "OSError"} :
       poll' = IF exc = "none" THEN [poll EXCEPT !.pc = "while", !.exc = exc]
               ELSE IF retry_if_exception_type(exc) /\ poll.tries < StopAfterAttempt
                 THEN [poll EXCEPT !.tries = @ + 1, !.exc = exc]
               ELSE check_for_new_emails_raises([poll EXCEPT !.exc = exc],
                      IF retry_if_exception_type(exc) THEN "RetryError" ELSE exc)
  /\ UNCHANGED <<related, people, main, projects, sent, calls, last, pre, pc, ncalls, arg, ret, inst, mail, notify, paging>>

\* the top of the while loop: select and search UNSEEN; an IMAP error is
\* raised again and leaves check_for_new_emails
Search ==
  /\ poll.pc = "while"
  /\ \E exc \in {"none", "IMAP4.error"} :
       LET unseen == {i \in 1..Len(mail.inbox) : ~mail.inbox[i].seen}
           email_ids == [j \in 1..Cardinality(unseen) |->
                           CHOOSE i \in unseen : Cardinality({x \in unseen : x < i}) = j - 1]
           cycle == [poll EXCEPT !.email_ids = IF exc = "none" THEN email_ids ELSE <<>>,
                                 !.k = 1,
                                 !.unread = IF exc = "none" THEN {mail.inbox[i].id : i \in unseen} ELSE {},
                                 !.handled = <<>>,
                                 !.raised = FALSE, !.marked = FALSE, !.moved = FALSE]
       IN poll' = IF exc # "none" THEN check_for_new_emails_raises(cycle, exc)
                  ELSE [cycle EXCEPT !.pc = IF email_ids = <<>> THEN "while" ELSE "for"]
  /\ UNCHANGED <<related, people, main, projects, sent, calls, last, pre, pc, ncalls, arg, ret, inst, mail, notify, paging>>

\* one turn of the for loop over email_ids: fetch (the server sets \Seen on
\* the fetched message), process_email, mark, move
ForEmailId ==
  /\ poll.pc = "for"
  /\ \E copy \in {"OK", "NO"} :
       LET e_id == poll.email_ids[poll.k]
           found == e_id <= Len(mail.inbox)
           exc == IF ~found THEN "IMAP4.error"
                  ELSE IF mail.inbox[e_id].fault THEN "TypeError" ELSE "none"
           fetched == IF found THEN [mail EXCEPT !.inbox[e_id].seen = TRUE] ELSE mail
           runs == found /\ after_process_email(exc)
           next == [poll EXCEPT
                      !.k = @ + 1,
                      !.pc = IF poll.k = Len(poll.email_ids) THEN "while" ELSE "for",
                      !.handled = IF found THEN Append(@, mail.inbox[e_id].id) ELSE @,
                      !.invoked = IF found
                                    THEN [@ EXCEPT ![mail.inbox[e_id].id] = IF @ < 2 THEN @ + 1 ELSE @]
                                    ELSE @,
                      !.raised = found /\ exc # "none",
                      !.marked = runs,
                      !.moved = runs]
       IN /\ mail' = IF runs THEN move_email_to_archive(fetched, e_id, copy) ELSE fetched
          /\ poll' = IF exc = "none" \/ except_Exception(exc) THEN next
                     \* the handlers of the while loop
                     ELSE IF exc = "IMAP4.error" THEN check_for_new_emails_raises(next, exc)
                     ELSE [next EXCEPT !.pc = "while"]
  /\ UNCHANGED <<related, people, main, projects, sent, calls, last, pre, pc, ncalls, arg, ret, inst, notify, paging>>

\* the block under __main__: the exception is logged, the process sleeps and
\* the script ends
MainExit ==
  /\ poll.pc = "fatal"
  /\ poll' = [poll EXCEPT !.pc = "exited"]
  /\ UNCHANGED <<related, people, main, projects, sent, calls, last, pre, pc, ncalls, arg, ret, inst, mail, notify, paging>>

InitPoll ==
  /\ related = <<>> /\ people = <<>> /\ main = <<>> /\ projects = <<>>
  /\ sent = <<>> /\ calls = <<>> /\ last = NoCall /\ pre = Store
  /\ pc = "idle" /\ ncalls = 0 /\ arg = <<>> /\ ret = <<>> /\ inst = <<>>
  /\ notify = <<>> /\ paging = <<>>
  /\ mail = [inbox |-> <<>>, archive |-> {}, n |-> 0]
  /\ poll = [pc |-> "connect", attempt |-> 1, tries |-> 1, exc |-> "none",
             email_ids |-> <<>>, k |-> 1, unread |-> {}, handled |-> <<>>,
             invoked |-> [m \in 1..MaxMessages |-> 0],
             raised |-> FALSE, marked |-> FALSE, moved |-> FALSE]

NextPoll == Arrive \/ ConnectImap \/ Search \/ ForEmailId \/ MainExit

SpecPoll == InitPoll /\ [][NextPoll]_vars

\* the polling process keeps running while it has a step to take
SpecPollFair == SpecPoll /\ WF_vars(ConnectImap \/ Search \/ ForEmailId \/ MainExit)

\* ------------------------------------------------------ error notifications
\* send_error_email with its file of notified clients.  The clock is the
\* whole-second clock that the function reads; the file maps the key of a
\* (registry code, client address) pair to the time of its last notification.
MaxTicks == 2

TTL_SECONDS == 180

CC_EMAIL == "cc@aire"

\* the time that passes between two calls
ClockSteps == {1, TTL_SECONDS - 1}

\* the address extracted from the message: none, a client's own, or one that
\* is also the CC address
ClientEmails == {"", "ann@firma.ee", CC_EMAIL}

\* the recipients of a container as the callers pass them
InternalRecipients == {<<"main@aire">>, <<"main@aire", CC_EMAIL>>}

\* the entries of the file that have not expired
unexpired(store, now) ==
  [k \in {j \in DOMAIN store : (now - store[j]) < TTL_SECONDS} |-> store[k]]

\* a client that is told of every failure
client_can_receive_always(store, client_email, key) == client_email # ""

client_can_receive(store, client_email, key) == client_email # "" /\ key \notin DOMAIN store

\* the first occurrence of every non-empty address, in order
RECURSIVE final_recipients(_)
final_recipients(recipients_all) ==
  IF recipients_all = <<>> THEN <<>>
  ELSE LET n == Len(recipients_all)
           head == final_recipients(SubSeq(recipients_all, 1, n - 1))
           r == recipients_all[n]
       IN IF r # "" /\ ~InSeq(r, head) THEN Append(head, r) ELSE head

\* one call of send_error_email; smtp tells whether the SMTP session raised
SendErrorEmail ==
  \E reg_code \in Codes \ {""}, client_email \in ClientEmails,
     internal_recipients \in InternalRecipients, smtp \in {"ok", "raises"} :
    LET now == notify.now
        key == <<reg_code, client_email>>
        store == unexpired(notify.store, now)
        can == client_can_receive(store, client_email, key)
        store1 == IF can THEN [k \in DOMAIN store \cup {key} |-> IF k = key THEN now ELSE store[k]]
                  ELSE store
        recipients_all == (IF can THEN <<client_email>> ELSE <<>>)
                            \o internal_recipients \o <<CC_EMAIL>>
        final == final_recipients(recipients_all)
        delivered == smtp = "ok"
        told == IF delivered /\ InSeq(client_email, final)
                  THEN [k \in DOMAIN notify.told \cup {key} |->
                          IF k = key THEN now ELSE notify.told[k]]
                  ELSE notify.told
    IN /\ notify' = [notify EXCEPT
                       !.store = IF delivered THEN store1 ELSE @,
                       !.told = told,
                       !.msg = [delivered |-> delivered, key |-> key, client_email |-> client_email,
                                client_can_receive |-> can,
                                internal_recipients |-> internal_recipients,
                                final_recipients |-> final, at |-> now,
                                before |-> IF key \in DOMAIN notify.told
                                             THEN notify.told[key] ELSE NoNumber]]
       /\ UNCHANGED <<related, people, main, projects, sent, calls, last, pre, pc, ncalls,
                      arg, ret, inst, mail, poll, paging>>

\* time passes
Tick ==
  /\ notify.ticks < MaxTicks
  /\ \E d \in ClockSteps :
       notify' = [notify EXCEPT !.now = @ + d, !.ticks = @ + 1]
  /\ UNCHANGED <<related, people, main, projects, sent, calls, last, pre, pc, ncalls,
                 arg, ret, inst, mail, poll, paging>>

NoMessage == [delivered |-> FALSE, key |-> <<"", "">>, client_email |-> "",
              client_can_receive |-> FALSE, internal_recipients |-> <<>>,
              final_recipients |-> <<>>, at |-> 0, before |-> NoNumber]

InitNotify ==
  /\ related = <<>> /\ people = <<>> /\ main = <<>> /\ projects = <<>>
  /\ sent = <<>> /\ calls = <<>> /\ last = NoCall /\ pre = Store
  /\ pc = "idle" /\ ncalls = 0 /\ arg = <<>> /\ ret = <<>> /\ inst = <<>>
  /\ mail = <<>> /\ poll = <<>> /\ paging = <<>>
  /\ notify = [store |-> <<>>, now |-> 0, ticks |-> 0, told |-> <<>>, msg |-> NoMessage]

NextNotify == SendErrorEmail \/ Tick

SpecNotify == InitNotify /\ [][NextNotify]_vars

\* --------------------------------------------------------- paginated query
\* query_all_pages as a loop.  The store holds the records 1..n that match
\* the filter and answers a request with one page of page_size records; a
\* cursor is the number of the page it stands for.
MaxRecords == 6

\* notion.databases.query(database_id, start_cursor): the page at the cursor,
\* the first page without one
databases_query(db, start_cursor) ==
  LET c == IF start_cursor = None THEN 1 ELSE start_cursor
      from == (c - 1) * db.page_size + 1
      to == IF c * db.page_size < db.n THEN c * db.page_size ELSE db.n
  IN [results |-> [i \in 1..(to - from + 1) |-> from + i - 1],
      has_more |-> to < db.n,
      next_cursor |-> IF to < db.n THEN c + 1 ELSE None]

\* one pass of "while has_more"; an exception of the request leaves the loop
QueryAllPages ==
  /\ paging.pc = "while"
  /\ \E raises \in BOOLEAN :
       LET start_cursor == IF paging.next_cursor # None THEN paging.next_cursor
                           ELSE paging.start_cursor
           response == databases_query(paging.db, start_cursor)
       IN paging' =
            IF raises
              THEN [paging EXCEPT !.start_cursor = start_cursor, !.raised = TRUE,
                                  !.pc = "returned"]
              ELSE [paging EXCEPT !.start_cursor = start_cursor,
                                  !.all_results = @ \o response.results,
                                  !.has_more = response.has_more,
                                  !.next_cursor = response.next_cursor,
                                  !.requests = @ + 1,
                                  !.pc = IF response.has_more THEN "while" ELSE "returned"]
  /\ UNCHANGED <<related, people, main, projects, sent, calls, last, pre, pc, ncalls,
                 arg, ret, inst, mail, poll, notify>>

InitQuery ==
  /\ related = <<>> /\ people = <<>> /\ main = <<>> /\ projects = <<>>
  /\ sent = <<>> /\ calls = <<>> /\ last = NoCall /\ pre = Store
  /\ pc = "idle" /\ ncalls = 0 /\ arg = <<>> /\ ret = <<>> /\ inst = <<>>
  /\ mail = <<>> /\ poll = <<>> /\ notify = <<>>
  /\ \E n \in 0..MaxRecords, page_size \in 1..MaxRecords :
       paging = [db |-> [n |-> n, page_size |-> page_size],
                 all_results |-> <<>>, has_more |-> TRUE, next_cursor |-> None,
                 start_cursor |-> None, requests |-> 0, raised |-> FALSE, pc |-> "while"]

SpecQuery == InitQuery /\ [][QueryAllPages]_vars

\* ------------------------------------------------------------ observations
Done(op) == pc = "done" /\ last.op = op

\* validate_estonian_company raises for the email of the current call
ValidationFails ==
  /\ last.email_data.estonian
  /\ \/ ~isdigit(last.email_data.registration_code)
     \/ last.http # "ok"

ErrorsSent == Cardinality({i \in 1..Len(sent) : sent[i].kind = "error"})

CreateCalls == {i \in 1..Len(calls) : calls[i].call = "create"}

\* the records the current call added to the service containers
NewProjects == (Len(pre.projects) + 1)..Len(projects)

\* the CompanyRecord that the store held for the email's registration code
\* when the call began
CompanyBefore ==
  First({i \in 1..Len(pre.related) :
           /\ isdigit(last.email_data.registration_code)
           /\ pre.related[i].reg = int(last.email_data.registration_code)}, "asc")

\* -------------------------------------------------------------------- claims

\* C1: when process_email_data handles the email of a domestic company whose
\* registry validation fails, no create call reaches the record store.
C1_NoCreateWhenValidationFails ==
  (Done("process_email_data") /\ ValidationFails) => CreateCalls = {}

\* C2: when the registry lookup of a domestic company answers not-found,
\* send_error_email is invoked exactly once while the email is processed.
C2_OneErrorNotification ==
  (/\ Done("process_email_data")
   /\ last.email_data.estonian
   /\ isdigit(last.email_data.registration_code)
   /\ last.http = "notfound") => ErrorsSent = 1

\* C3: the related container holds at most one CompanyRecord per registry code.
C3_OneCompanyPerCode ==
  \A i, j \in 1..Len(related) :
    (i # j /\ related[i].reg # NoNumber) => related[i].reg # related[j].reg

\* C4: the main container holds at most one MainRecord per registry code.
C4_OneMainPerCode ==
  \A i, j \in 1..Len(main) :
    (i # j /\ main[i].reg # "") => main[i].reg # main[j].reg

\* C5: when the company passes validation and the record store accepts every
\* call, process_email_data creates exactly c ProjectRecords in the container
\* of every catalog service requested with count c > 0.
C5_ExactlyCountProjects ==
  (Done("process_email_data") /\ ~ValidationFails /\ last.F = {}) =>
    \A s \in DOMAIN SERVICE_CONFIG :
      last.service_counts[s] > 0 =>
        Cardinality({i \in NewProjects : projects[i].db = SERVICE_CONFIG[s].database_id})
          = last.service_counts[s]

\* C6: every ProjectRecord created for an email whose company has a
\* CompanyRecord and a MainRecord carries a relation to that CompanyRecord
\* and a relation to that MainRecord.
C6_ProjectsLinked ==
  (/\ Done("add_project")
   /\ CompanyBefore # None
   /\ \E m \in 1..Len(pre.main) : pre.main[m].reg = last.email_data.registration_code) =>
    \A i \in NewProjects :
      /\ projects[i].company = CompanyBefore
      /\ projects[i].main # None
      /\ main[projects[i].main].reg = last.email_data.registration_code

\* C7: the units add_project creates for a company carry the running indexes
\* k+1, k+2, ..., where k is the number of records that the container held
\* for that company when the call began.
C7_RunningIndexes ==
  Done("add_project") =>
    LET k == Cardinality({i \in 1..Len(pre.projects) :
                            /\ CompanyBefore # None
                            /\ pre.projects[i].db = SERVICE_CONFIG[last.service_name].database_id
                            /\ pre.projects[i].company = CompanyBefore})
    IN \A i \in NewProjects : projects[i].index = k + (i - Len(pre.projects))

\* C9: when the creation of a unit fails, add_project still attempts every
\* later unit, and it reports the failure by an error notification.
C9_LaterUnitsAttempted ==
  (Done("add_project") /\ \E i \in CreateCalls : ~calls[i].ok) =>
    /\ Cardinality(CreateCalls) = last.count
    /\ ErrorsSent >= 1

\* C8 as stated: the Jrk of each created ProjectRecord is the running count of
\* the company's records in that container (existing count plus the unit's
\* position), never derived from the container-wide maximum.
C8_JrkRunningCount ==
  Done("add_project") =>
    LET k == Cardinality({i \in 1..Len(pre.projects) :
                            /\ CompanyBefore # None
                            /\ pre.projects[i].db = SERVICE_CONFIG[last.service_name].database_id
                            /\ pre.projects[i].company = CompanyBefore})
    IN \A i \in NewProjects : projects[i].jrk = k + (i - Len(pre.projects))

\* the Jrk values add_project had to continue from: those of the records of
\* the container that the per-company query returned, else of the whole
\* container
JrkOfCompany(i) ==
  IF projects[i].company = None \/ "project.jrk" \in last.F THEN {}
  ELSE {pre.projects[j].jrk : j \in {n \in 1..Len(pre.projects) :
                                       /\ pre.projects[n].db = projects[i].db
                                       /\ pre.projects[n].company = projects[i].company}}
JrkOfContainer(i) ==
  IF "project.maxjrk" \in last.F THEN {}
  ELSE {pre.projects[j].jrk : j \in {n \in 1..Len(pre.projects) :
                                       pre.projects[n].db = projects[i].db}}

\* C8 (amended): the first unit of a call gets one more than the highest Jrk
\* among the company's records of that container that the per-company query
\* returned, or, when it returned none, one more than the container-wide
\* maximum Jrk (0 for an empty container or a failed query); each later unit
\* gets the Jrk of the unit before it plus one.
C8_JrkLocalElseGlobalMax ==
  Done("add_project") =>
    \A i \in NewProjects :
      projects[i].jrk =
        (IF JrkOfCompany(i) # {} THEN MaxOf(JrkOfCompany(i)) ELSE MaxOf(JrkOfContainer(i)))
          + (i - Len(pre.projects))

\* a company's first project in a container that holds another company's
\* records, created while every call succeeded
C8_Witness ==
  /\ Done("add_project")
  /\ last.F = {}
  /\ \E i \in NewProjects :
       /\ projects[i].company # None
       /\ JrkOfCompany(i) = {}
       /\ JrkOfContainer(i) # {}
       /\ projects[i].jrk > 1

\* the CompanyRecords of the current email: the one created for it, or those
\* that carry its registration code
EmailCompanies ==
  {b \in 1..Len(related) :
     \/ b > Len(pre.related)
     \/ /\ isdigit(last.email_data.registration_code)
        /\ related[b].reg = int(last.email_data.registration_code)}

\* the contacts the store held under the email's participant name
NamedContacts ==
  {c \in 1..Len(pre.people) :
     /\ last.email_data.participant_name # ""
     /\ pre.people[c].name = last.email_data.participant_name}

NoCompanyTwice(orgs) == \A i, j \in 1..Len(orgs) : i # j => orgs[i] # orgs[j]

C11_NewContactCreated ==
  (/\ Done("process_email_data")
   /\ last.F = {}
   /\ ~ValidationFails
   /\ last.email_data.participant_name # ""
   /\ NamedContacts = {}) =>
    /\ Len(people) = Len(pre.people) + 1
    /\ people[Len(people)].name = last.email_data.participant_name
    /\ \E b \in EmailCompanies : InSeq(b, people[Len(people)].orgs)
    /\ Len(main) > Len(pre.main)

\* C12: normalize_company_name is idempotent: normalizing its result again
\* returns that result (arg holds the first result, ret the second).
C12_Idempotent == pc = "twice" => ret = arg

\* the spellings of company Foo with one legal form: the long-form word before
\* or after the name, the abbreviation leading (followed by nothing, a space,
\* a dot, a hyphen or a dot and a space) or trailing (after a space or a
\* comma and a space)
Spellings(abbr, long) ==
  {<<"Foo", " ", long>>, <<long, " ", "Foo">>,
   <<abbr, "Foo">>, <<abbr, " ", "Foo">>, <<abbr, ".", "Foo">>, <<abbr, "-", "Foo">>,
   <<abbr, ".", " ", "Foo">>,
   <<"Foo", " ", abbr>>, <<"Foo", ",", " ", abbr>>}

\* C13: every spelling of the same company and legal form is normalized to
\* the bare name, one space and the uppercase abbreviation.
C13_OneCanonicalForm ==
  pc = "done" =>
    \A i \in 1..Len(patterns) :
      arg \in Spellings(patterns[i].replacement, patterns[i].regex) =>
        ret = <<"Foo", " ", patterns[i].replacement>>

\* C14: every value extract_service_counts returns lies in 0..2 for an
\* advisory service and in 0..1 for a one-shot service, and an advisory
\* service detected with a marker value above 2 is counted exactly 2.
C14_CountsWithinLimits ==
  pc = "done" =>
    /\ \A k \in service_keys : ret[k] \in 0..(IF k \in AdvisoryKeys THEN 2 ELSE 1)
    /\ (arg.language = "en" /\ count_match(arg.body, "AI suitability assessment") = "3")
         => ret[K_AI] = 2
    /\ (/\ arg.language = "et"
        /\ search(arg.body, "Tehisintellekti otstarbekuse noustamine") # {}
        /\ kordne_match(arg.body, "AI noustamine") = "3") => ret[K_AI] = 2

\* an English body whose marker of the AI suitability service says 3
C14_Witness ==
  /\ pc = "done"
  /\ arg.language = "en"
  /\ \E i \in 1..Len(arg.body) :
       arg.body[i].label = "AI suitability assessment" /\ arg.body[i].value = "3"
  /\ ret[K_AI] = 2

\* the body holds the phrase, in either spelling
Present(label) == \E i \in 1..Len(arg.body) : arg.body[i].label = label

\* the values that the markers of a label carry in the body
Marked(label, values) ==
  {arg.body[i].value : i \in {j \in 1..Len(arg.body) :
                                arg.body[j].label = label /\ arg.body[j].value \in values}}

\* C15: a multi-unit service whose phrase is in the body together with its
\* count marker for n units is counted min(n, 2): "<label>: n kordne" in
\* Estonian, "<label>: n" or "<label>: two" in English.
C15_MarkedCount ==
  pc = "done" =>
    \A v \in {"1", "3", "two"} :
      /\ (arg.language = "en" /\ Marked("AI suitability assessment", Values \ {""}) = {v})
           => ret[K_AI] = min(IntOf(v), 2)
      /\ (/\ arg.language = "en"
          /\ Marked("Support to find funding", Values \ {""}) = {v}
          /\ Present("private capital")) => ret[K_PRIVATE] = min(IntOf(v), 2)
      /\ (/\ arg.language = "et" /\ v # "two"
          /\ Present("Tehisintellekti otstarbekuse noustamine")
          /\ Marked("AI noustamine", {"1", "3"}) = {v}) => ret[K_AI] = min(IntOf(v), 2)
      /\ (/\ arg.language = "et" /\ v # "two"
          /\ Marked("Finantseerimise noustamine", {"1", "3"}) = {v}
          /\ Present("Erakapitali kaasamine")) => ret[K_PRIVATE] = min(IntOf(v), 2)

\* C16: a multi-unit service whose phrase is in the body without its own
\* count marker is counted exactly 1, whatever else the body holds.
C16_UnmarkedCountsOne ==
  pc = "done" =>
    /\ (/\ arg.language = "en"
        /\ Present("AI suitability assessment")
        /\ Marked("AI suitability assessment", Values \ {""}) = {}) => ret[K_AI] = 1
    /\ (/\ arg.language = "en"
        /\ Present("AI Act awareness and responsible AI")
        /\ Marked("AI Act awareness and responsible AI", Values \ {""}) = {}) => ret[K_AI_ACT] = 1
    /\ (/\ arg.language = "en"
        /\ Present("Support to find funding") /\ Present("public measures")
        /\ Marked("Support to find funding", Values \ {""}) = {}) => ret[K_PUBLIC] = 1
    /\ (/\ arg.language = "et"
        /\ Present("Tehisintellekti otstarbekuse noustamine")
        /\ Marked("AI noustamine", {"1", "3"}) = {}) => ret[K_AI] = 1

\* C18: for a language other than "et" and "en" every service is counted 0.
C18_UnsupportedLanguageAllZero ==
  (pc = "done" /\ arg.language \notin {"et", "en"}) =>
    /\ DOMAIN ret = service_keys
    /\ \A k \in service_keys : ret[k] = 0

\* a body that names a service with a count, read as of another language
C18_Witness ==
  /\ pc = "done"
  /\ arg.language = "fr"
  /\ \E i \in 1..Len(arg.body) : arg.body[i].value = "two" /\ arg.body[i].spelling = "source"
  /\ \E i \in 1..Len(arg.body) : arg.body[i].label = "Koostoopartnerite leidmine" /\ arg.body[i].spelling = "source"
  /\ ret = service_counts0

\* the one line of the body that carries the e-mail label
EmailLines == {i \in 1..Len(arg) : arg[i].label = FieldLabels.email_address}

\* C17: when the text after the colon of the e-mail line holds no address,
\* the address of the following line is returned; when the e-mail line holds
\* an address itself, that address is returned.
C17_AddressFallsBackToNextLine ==
  pc = "done" =>
    \A i \in EmailLines :
      EmailLines = {i} =>
        /\ email_pattern(arg[i].text) # "" => ret.email_address = email_pattern(arg[i].text)
        /\ (/\ arg[i].text # ""
            /\ email_pattern(arg[i].text) = ""
            /\ i < Len(arg)
            /\ arg[i + 1].label = ""
            /\ email_pattern(arg[i + 1].text) # "")
             => ret.email_address = email_pattern(arg[i + 1].text)

\* C20: a notification addressed to the responsibles of a container for which
\* none is configured goes to the default recipients, never to an empty list.
C20_DefaultWhenNoneConfigured ==
  (Done("add_project") /\ last.service_name \in DOMAIN SERVICE_CONFIG) =>
    \A i \in 1..Len(sent) :
      /\ sent[i].to # {}
      /\ DATABASE_RESPONSIBLES[SERVICE_CONFIG[last.service_name].database_id] = {}
           => sent[i].to = DEFAULT_RECIPIENTS

\* C19: when the detected language is neither "et" nor "en" (or detection
\* fails), or no company name is extracted, process_email leaves the record
\* store unchanged, issues no call to it and sends no notification.
C19_SkippedEmailChangesNothing ==
  (Done("process_email") /\ (arg.detect \notin {"et", "en"} \/ ret.company_name = "")) =>
    /\ Store = pre
    /\ calls = <<>>
    /\ sent = <<>>

\* an email in another language that names a company and a service, and an
\* English email without a company name but with a registration code
C19_Witness ==
  /\ Done("process_email")
  /\ Store = pre
  /\ \/ /\ arg.detect \in {"fr", "error"}
        /\ ret.company_name # ""
        /\ arg.services # <<>>
     \/ /\ arg.detect = "en"
        /\ ret.company_name = ""
        /\ ret.registration_code = "11"

\* C21: whenever an exception was caught while process_email_data handled an
\* email (an error notification was sent), an error notification reaches the
\* recipients configured for the main container, and the default list is
\* used only when no configured recipient resolves.
C21_MainRecipientsNotified ==
  (Done("process_email_data") /\ ErrorsSent > 0) =>
    /\ \E i \in 1..Len(sent) :
         /\ sent[i].kind = "error"
         /\ DATABASE_RESPONSIBLES[MAIN_DATABASE_ID] \subseteq sent[i].to
    /\ \A i \in 1..Len(sent) :
         (sent[i].kind = "error" /\ sent[i].to = DEFAULT_RECIPIENTS)
           => DATABASE_RESPONSIBLES[MAIN_DATABASE_ID] = {}

\* C28: once the registry validation of the email has failed, or its
\* CompanyRecord was neither found nor created, process_email_data issues no
\* create call for a contact, a main record or a project; every MainRecord it
\* creates links to a CompanyRecord.
C28_FailedIsAbsorbing ==
  Done("process_email_data") =>
    LET unresolved == /\ Len(related) = Len(pre.related)
                      /\ (CompanyBefore = None \/ "process.related_lookup" \in last.F)
    IN /\ (ValidationFails \/ unresolved) =>
            \A i \in CreateCalls : calls[i].db = RELATED_DATABASE_ID
       /\ \A m \in (Len(pre.main) + 1)..Len(main) :
            main[m].company \in 1..Len(related)

\* C29: a CompanyRecord that process_email_data creates for a domestic
\* company carries registry-derived enrichment (so none is created when the
\* registry scrape yields nothing).
C29_DomesticRecordEnriched ==
  (Done("process_email_data") /\ last.email_data.estonian) =>
    \A i \in (Len(pre.related) + 1)..Len(related) : related[i].enriched

\* C30: when the lookups of two instances that process the same, not yet
\* recorded registration code both returned nothing, each instance creates
\* its own record: the related container ends with two CompanyRecords of
\* that code, and likewise the main container with two MainRecords.
C30_RaceLeavesDuplicates ==
  \A p, q \in DOMAIN inst :
    (p # q /\ inst[p].email_data.registration_code = inst[q].email_data.registration_code) =>
      LET code == inst[p].email_data.registration_code
          resolved == {"related_resolved", "main_looked", "done"}
          sawNoMain(x) == \A i \in 1..inst[x].main_seen : main[i].reg # code
      IN /\ (/\ inst[p].pc \in resolved /\ inst[q].pc \in resolved
             /\ inst[p].related_entry = None /\ inst[q].related_entry = None)
              => Cardinality({i \in 1..Len(related) : related[i].reg = int(code)}) >= 2
         /\ (/\ inst[p].pc = "done" /\ inst[q].pc = "done"
             /\ sawNoMain(p) /\ sawNoMain(q))
              => Cardinality({i \in 1..Len(main) : main[i].reg = code}) >= 2

\* both instances have finished the same registration code, neither lookup
\* had found a record, and both containers hold two records of the code
C30_Witness ==
  /\ inst # <<>>
  /\ inst[1].pc = "done" /\ inst[2].pc = "done"
  /\ inst[1].email_data.registration_code = inst[2].email_data.registration_code
  /\ inst[1].related_entry = None /\ inst[2].related_entry = None
  /\ inst[1].related_entry_id # inst[2].related_entry_id
  /\ Cardinality({i \in 1..Len(related) : related[i].reg = int(inst[1].email_data.registration_code)}) = 2
  /\ Cardinality({i \in 1..Len(main) : main[i].reg = inst[1].email_data.registration_code}) = 2

\* C22: an exception raised while one email is processed does not leave the
\* for loop of the polling cycle: after a turn in which process_email raised
\* the process is still in its loops, at the next id of the same cycle, and
\* when the cycle ends every message that was unread at the search and lies
\* behind a message for which process_email raised has been processed.
C22_ExceptionDoesNotStopCycle ==
  poll # <<>> =>
    LET raisedIds == {mail.inbox[i].id : i \in {j \in 1..Len(mail.inbox) :
                        mail.inbox[j].fault /\ InSeq(mail.inbox[j].id, poll.handled)}}
    IN /\ poll.raised =>
            /\ poll.pc \in {"for", "while"}
            /\ (poll.pc = "for") <=> (poll.k <= Len(poll.email_ids))
       /\ (poll.pc = "while" /\ poll.k > Len(poll.email_ids)) =>
            \A m \in poll.unread :
              (\E r \in raisedIds : r < m) => InSeq(m, poll.handled)

\* C23: connect_imap is attempted again only after an IMAP error, at most
\* StopAfterAttempt attempts are made for one connection, and any other
\* exception reaches the caller without another attempt.
C23_BoundedConnectRetry ==
  poll # <<>> =>
    /\ poll.tries <= StopAfterAttempt
    /\ (poll.pc = "connect" /\ poll.tries > 1) => poll.exc = "IMAP4.error"
    /\ poll.exc = "OSError" => poll.pc \in {"fatal", "exited"}

\* the last allowed attempt failed with an IMAP error and the failure has
\* reached the caller
C23_Witness ==
  /\ poll # <<>>
  /\ poll.pc = "fatal"
  /\ poll.tries = StopAfterAttempt
  /\ poll.exc = "IMAP4.error"

\* C24: process_email is invoked at most once for a message, whether it
\* returned or raised.
C24_ProcessedOnce ==
  poll # <<>> => \A m \in DOMAIN poll.invoked : poll.invoked[m] <= 1

\* C25: after every fatal failure of check_for_new_emails the process
\* connects and polls again.
C25_RestartAfterFatal == (poll # <<>> /\ poll.pc = "fatal") ~> (poll # <<>> /\ poll.pc = "connect")

\* C26: in one polling cycle process_email is invoked only for messages that
\* were unread at the search, and when the cycle ends it has been invoked
\* exactly once for each of them.
C26_CycleProcessesUnreadOnce ==
  poll # <<>> =>
    /\ \A j \in 1..Len(poll.handled) : poll.handled[j] \in poll.unread
    /\ (poll.pc = "while" /\ poll.k > Len(poll.email_ids)) =>
         \A m \in poll.unread : Cardinality({j \in 1..Len(poll.handled) : poll.handled[j] = m}) = 1

C31_ExistingRecordsUntouched ==
  Done("process_email_data") =>
    /\ SubSeq(related, 1, Len(pre.related)) = pre.related
    /\ SubSeq(main, 1, Len(pre.main)) = pre.main
    /\ \A i \in 1..Len(calls) :
         calls[i].call = "update" => calls[i].db \notin {RELATED_DATABASE_ID, MAIN_DATABASE_ID}

\* the email of a company that has a CompanyRecord was processed, the store
\* accepted every call, and a contact was linked to that company or the
\* company's MainRecord was found
C31_Witness ==
  /\ Done("process_email_data")
  /\ last.F = {}
  /\ CompanyBefore # None
  /\ related = pre.related
  /\ \/ \E i \in 1..Len(calls) : calls[i].call = "update"
     \/ /\ main = pre.main
        /\ \E m \in 1..Len(main) : main[m].reg = last.email_data.registration_code

\* C32: the Jrk values carried by the MainRecords of the main container are
\* pairwise distinct, and a MainRecord that process_email_data created carries
\* a Jrk only if some service count of the email is above 0.
C32_JrkDistinctOnlyOnRequest ==
  /\ \A i, j \in 1..Len(main) :
       (i # j /\ main[i].jrk # None) => main[i].jrk # main[j].jrk
  /\ Done("process_email_data") =>
       \A i \in (Len(pre.main) + 1)..Len(main) :
         main[i].jrk # None =>
           \E k \in DOMAIN last.service_counts : last.service_counts[k] > 0

\* C35: when the lookup of the CompanyRecord by registry code fails (the
\* store raises, or the code cannot be converted for the filter),
\* process_email_data creates no CompanyRecord, and when the lookup of the
\* MainRecord fails it creates no MainRecord.
C35_LookupFailureCreatesNothing ==
  Done("process_email_data") =>
    /\ ("process.related_lookup" \in last.F \/ ~isdigit(last.email_data.registration_code))
         => Len(related) = Len(pre.related)
    /\ "main.lookup" \in last.F => Len(main) = Len(pre.main)

\* C33: add_project finds the container's main-record relation property when
\* the container spells it in another letter case or surrounded by whitespace
\* than the catalog: with a valid company, a MainRecord and a store that
\* accepts every call, all count ProjectRecords are created with the relation
\* to the MainRecord set.
C33_RelationPropertyMatchedDefensively ==
  ( /\ Done("add_project")
    /\ last.service_name \in DOMAIN SERVICE_CONFIG
    /\ ~ValidationFails
    /\ last.F = {}
    /\ last.main_entry_id # None
    /\ \E k \in last.db_props : k.form \in {"exact", "lower", "padded"} )
  => /\ Len(projects) = Len(pre.projects) + last.count
     /\ \A i \in NewProjects : projects[i].main = last.main_entry_id

\* C36: whenever add_project was called with count > 0 and returned without
\* having created all count ProjectRecords, at least one error notification
\* was sent during the call.
C36_NoUnitDroppedSilently ==
  ( /\ Done("add_project")
    /\ last.service_name \in DOMAIN SERVICE_CONFIG
    /\ last.count > 0
    /\ Len(projects) < Len(pre.projects) + last.count )
  => ErrorsSent >= 1

\* C34: a body that holds the canonical phrase of a service in the language
\* of the email makes extract_service_counts return a count of at least 1
\* for that service, under the key of the service's catalog entry.
C34_CanonicalPhraseDetected ==
  pc = "done" =>
    /\ (arg.language = "en" /\ Present("AI suitability assessment")) => ret[K_AI] >= 1
    /\ (arg.language = "en" /\ Present("Matchmaking")) => ret[K_MATCHMAKING] >= 1
    /\ (arg.language = "en" /\ Present("AI Act awareness and responsible AI")) => ret[K_AI_ACT] >= 1
    /\ (arg.language = "en" /\ Present("Access to EU AI infrastructure")) => ret[K_EU_ACCESS] >= 1
    /\ (arg.language = "et" /\ Present("Tehisintellekti otstarbekuse noustamine")) => ret[K_AI] >= 1
    /\ (arg.language = "et" /\ Present("Koostoopartnerite leidmine")) => ret[K_MATCHMAKING] >= 1
    /\ (arg.language = "et" /\ Present("TI maaruse noustamine ja usaldusvaarne TI")) => ret[K_AI_ACT] >= 1
    /\ (arg.language = "et" /\ Present("Ligipaas EL'i tehisintellekti taristule")) => ret[K_EU_ACCESS] >= 1
    /\ \A k \in {K_AI, K_MATCHMAKING} : ret[k] >= 1 => k \in DOMAIN SERVICE_CONFIG

C38_AllPagesReturned ==
  paging.pc = "returned" =>
    /\ paging.all_results = [i \in 1..paging.db.n |-> i]
    /\ ~paging.has_more

====
